---- MODULE Spec2Model ----
(* Model of convert_file.py: the tabular converters (txt_to_csv, csv_to_txt, *)
(* csv_to_json, json_to_csv) and the image converters (esd_to_wim,           *)
(* wim_to_esd) with their availability probe and wimlib fallbacks.           *)
EXTENDS Integers, Sequences, FiniteSets, TLC

VARIABLES pc, call, invocations, log, probe_ret, outcome,
          txt_file, csv_file, txt_out, json_file

vars == <<pc, call, invocations, log, probe_ret, outcome,
          txt_file, csv_file, txt_out, json_file>>

tabVars == <<txt_file, csv_file, txt_out, json_file>>

(***************************************************************************)
(* Image converter                                                         *)
(***************************************************************************)

\* Exit outcomes of one subprocess.run(..., check=True): the tool exits 0,
\* exits non-zero (CalledProcessError) or is not on the path
\* (FileNotFoundError).
Statuses == {"zero", "nonzero", "notfound"}

EsdPaths == {"a.esd", "/img/a.esd"}
WimPaths == {"b.wim", "/img/b.wim"}
MaxIndex == 2
Indexes == 1..MaxIndex

NoCall == [fn |-> "none", src |-> "", dst |-> "", source_index |-> 0]

\* Variant of the probe without the "except FileNotFoundError" clause.
is_dism_available_no_notfound_handler(status) ==
    CASE status = "zero"     -> [ret |-> TRUE,  exc |-> "none", printed |-> <<>>]
      [] status = "nonzero"  -> [ret |-> FALSE, exc |-> "none",
                                 printed |-> <<"DISM returned an error">>]
      [] status = "notfound" -> [ret |-> FALSE, exc |-> "FileNotFoundError",
                                 printed |-> <<>>]

\* is_dism_available(): status is what running ["dism", "/?"] does.
is_dism_available(status) ==
    CASE status = "zero"     -> [ret |-> TRUE,  exc |-> "none", printed |-> <<>>]
      [] status = "nonzero"  -> [ret |-> FALSE, exc |-> "none",
                                 printed |-> <<"DISM returned an error">>]
      [] status = "notfound" -> [ret |-> FALSE, exc |-> "none",
                                 printed |-> <<"DISM not found">>]

\* Variant of wimlib_esd_to_wim that passes destination and source swapped.
wimlib_esd_to_wim_swapped(esd_path, wim_path, source_index, status) ==
    [argv |-> <<"wimlib-imagex", "export", wim_path, ToString(source_index),
                esd_path, "--compress=max">>,
     exc |-> IF status = "notfound" THEN "FileNotFoundError" ELSE "none",
     printed |-> CASE status = "zero" ->
                        <<"Successfully converted ESD to WIM using wimlib">>
                   [] status = "nonzero" -> <<"Error">>
                   [] status = "notfound" -> <<>>]

\* wimlib_esd_to_wim: only CalledProcessError is caught.
wimlib_esd_to_wim(esd_path, wim_path, source_index, status) ==
    [argv |-> <<"wimlib-imagex", "export", esd_path, ToString(source_index),
                wim_path, "--compress=max">>,
     exc |-> IF status = "notfound" THEN "FileNotFoundError" ELSE "none",
     printed |-> CASE status = "zero" ->
                        <<"Successfully converted ESD to WIM using wimlib">>
                   [] status = "nonzero" -> <<"Error">>
                   [] status = "notfound" -> <<>>]

\* wimlib_wim_to_esd: only CalledProcessError is caught.
wimlib_wim_to_esd(wim_path, esd_path, source_index, status) ==
    [argv |-> <<"wimlib-imagex", "export", wim_path, ToString(source_index),
                esd_path, "--solid">>,
     exc |-> IF status = "notfound" THEN "FileNotFoundError" ELSE "none",
     printed |-> CASE status = "zero" -> <<"Successfully converted WIM to ESD">>
                   [] status = "nonzero" -> <<"Error">>
                   [] status = "notfound" -> <<>>]

\* The dism_command list built by esd_to_wim / wim_to_esd.
dism_command(fn, src, dst, source_index) ==
    <<"dism", "/export-image",
      "/sourceimagefile:" \o src,
      "/sourceindex:" \o ToString(source_index),
      "/destinationimagefile:" \o dst,
      IF fn = "esd_to_wim" THEN "/compress:max" ELSE "/compress:recovery",
      "/checkintegrity">>

\* The fallback selected by each direction.
wimlib_fallback(c, status) ==
    IF c.fn = "esd_to_wim"
    THEN wimlib_esd_to_wim(c.src, c.dst, c.source_index, status)
    ELSE wimlib_wim_to_esd(c.src, c.dst, c.source_index, status)

\* A caller enters esd_to_wim(esd_path, wim_path, source_index).
CallEsdToWim(esd_path, wim_path, source_index) ==
    /\ pc = "idle"
    /\ call' = [fn |-> "esd_to_wim", src |-> esd_path, dst |-> wim_path,
                source_index |-> source_index]
    /\ pc' = "probe"
    /\ UNCHANGED <<invocations, log, probe_ret, outcome>>
    /\ UNCHANGED tabVars

\* A caller enters wim_to_esd(wim_path, esd_path, source_index).
CallWimToEsd(wim_path, esd_path, source_index) ==
    /\ pc = "idle"
    /\ call' = [fn |-> "wim_to_esd", src |-> wim_path, dst |-> esd_path,
                source_index |-> source_index]
    /\ pc' = "probe"
    /\ UNCHANGED <<invocations, log, probe_ret, outcome>>
    /\ UNCHANGED tabVars

\* if is_dism_available(): ... else: ...
Probe(status) ==
    /\ pc = "probe"
    /\ LET r == is_dism_available(status) IN
         /\ invocations' = Append(invocations,
                [tool |-> "probe", argv |-> <<"dism", "/?">>, status |-> status])
         /\ IF r.exc # "none"
            THEN /\ probe_ret' = "raised"
                 /\ log' = log \o r.printed
                 /\ outcome' = r.exc
                 /\ pc' = "done"
            ELSE /\ probe_ret' = IF r.ret THEN "True" ELSE "False"
                 /\ log' = log \o r.printed \o
                       (IF r.ret THEN <<"Starting DISM process...">>
                        ELSE <<"DISM is not available. Trying alternative method with wimlib...">>)
                 /\ outcome' = outcome
                 /\ pc' = IF r.ret THEN "primary" ELSE "fallback"
    /\ UNCHANGED call
    /\ UNCHANGED tabVars

\* try: subprocess.run(dism_command, check=True, ...) except CalledProcessError
Primary(status) ==
    /\ pc = "primary"
    /\ invocations' = Append(invocations,
           [tool |-> "primary",
            argv |-> dism_command(call.fn, call.src, call.dst, call.source_index),
            status |-> status])
    /\ CASE status = "zero" ->
              /\ log' = Append(log, "Success")
              /\ outcome' = "returned"
              /\ pc' = "done"
         [] status = "nonzero" ->
              /\ log' = log \o <<"Error", "DISM failed, switching to wimlib...">>
              /\ outcome' = outcome
              /\ pc' = "fallback"
         [] status = "notfound" ->
              /\ log' = log
              /\ outcome' = "FileNotFoundError"
              /\ pc' = "done"
    /\ UNCHANGED <<call, probe_ret>>
    /\ UNCHANGED tabVars

\* wimlib_esd_to_wim(...) / wimlib_wim_to_esd(...) called from either branch.
Fallback(status) ==
    /\ pc = "fallback"
    /\ LET r == wimlib_fallback(call, status) IN
         /\ invocations' = Append(invocations,
                [tool |-> "fallback", argv |-> r.argv, status |-> status])
         /\ log' = log \o r.printed
         /\ outcome' = IF r.exc = "none" THEN "returned" ELSE r.exc
         /\ pc' = "done"
    /\ UNCHANGED <<call, probe_ret>>
    /\ UNCHANGED tabVars

InitImage ==
    /\ pc = "idle"
    /\ call = NoCall
    /\ invocations = <<>>
    /\ log = <<>>
    /\ probe_ret = "none"
    /\ outcome = "none"
    /\ txt_file = <<>>
    /\ csv_file = <<>>
    /\ txt_out = <<>>
    /\ json_file = <<>>

NextImage ==
    \/ \E e \in EsdPaths, w \in WimPaths, i \in Indexes : CallEsdToWim(e, w, i)
    \/ \E w \in WimPaths, e \in EsdPaths, i \in Indexes : CallWimToEsd(w, e, i)
    \/ \E s \in Statuses : Probe(s)
    \/ \E s \in Statuses : Primary(s)
    \/ \E s \in Statuses : Fallback(s)

SpecImage == InitImage /\ [][NextImage]_vars

\* The (tool, status) events of the conversion so far, in order.
Events == [i \in 1..Len(invocations) |->
              <<invocations[i].tool, invocations[i].status>>]

FailureLines == {"DISM returned an error", "DISM not found", "Error"}

FailuresLogged == Cardinality({i \in 1..Len(log) : log[i] \in FailureLines})

\* C1: for every combination of outcomes of the probe, the primary tool and
\* the fallback tool (zero, non-zero, not found), esd_to_wim and wim_to_esd
\* return normally; with the probe false and the fallback tool absent, two
\* failures are logged and nothing is raised.
C1_NoExceptionPropagates ==
    pc = "done" =>
        /\ outcome = "returned"
        /\ (Events = <<<<"probe", "notfound">>, <<"fallback", "notfound">>>>
                => FailuresLogged = 2)

\* C2: every finished conversion is one of: probe ok, primary exits zero;
\* probe ok, primary exits non-zero, fallback; probe fails, fallback.
C2_ThreeEventSequences ==
    pc = "done" =>
        \/ Events = <<<<"probe", "zero">>, <<"primary", "zero">>>>
        \/ \E f \in Statuses :
              Events = <<<<"probe", "zero">>, <<"primary", "nonzero">>,
                         <<"fallback", f>>>>
        \/ \E p \in {"nonzero", "notfound"}, f \in Statuses :
              Events = <<<<"probe", p>>, <<"fallback", f>>>>

\* C3: the probe returns True exactly when dism /? is found and exits zero,
\* False when it exits non-zero or is not found, and raises in no case;
\* a failure is printed as diagnostic text.
C3_ProbeReturnsBoolean ==
    Len(invocations) >= 1 =>
        /\ invocations[1].argv = <<"dism", "/?">>
        /\ probe_ret = (IF invocations[1].status = "zero" THEN "True" ELSE "False")
        /\ (Len(invocations) = 1 => outcome = "none")
        /\ (invocations[1].status # "zero" => log[1] \in FailureLines)

C3_Witness ==
    /\ Len(invocations) = 1
    /\ invocations[1].status = "notfound"
    /\ probe_ret = "False"
    /\ pc = "fallback"

FallbackInvocations == {i \in 1..Len(invocations) : invocations[i].tool = "fallback"}
PrimaryInvocations == {i \in 1..Len(invocations) : invocations[i].tool = "primary"}

\* The source, index and destination carried by a fallback command are those
\* of the call, which the primary command carries too.
SameOperands(argv) ==
    /\ argv[1] = "wimlib-imagex"
    /\ argv[2] = "export"
    /\ argv[3] = call.src
    /\ argv[4] = ToString(call.source_index)
    /\ argv[5] = call.dst
    /\ LET d == dism_command(call.fn, call.src, call.dst, call.source_index) IN
         /\ d[3] = "/sourceimagefile:" \o argv[3]
         /\ d[4] = "/sourceindex:" \o argv[4]
         /\ d[5] = "/destinationimagefile:" \o argv[5]

\* C9 as stated: the esd_to_wim fallback requests solid compression.
C9_Original ==
    \A i \in FallbackInvocations :
        /\ SameOperands(invocations[i].argv)
        /\ invocations[i].argv[6] = "--solid"

\* C9 (amended): a fallback command is an export carrying the call's source
\* path, source index and destination path; in esd_to_wim it requests
\* --compress=max, in wim_to_esd --solid; the wim_to_esd primary command
\* requests /compress:recovery (the esd_to_wim one /compress:max).
C9_FallbackCommand ==
    /\ \A i \in FallbackInvocations :
          /\ SameOperands(invocations[i].argv)
          /\ Len(invocations[i].argv) = 6
          /\ invocations[i].argv[6] =
                (IF call.fn = "esd_to_wim" THEN "--compress=max" ELSE "--solid")
    /\ \A i \in PrimaryInvocations :
          /\ invocations[i].argv[1] = "dism"
          /\ invocations[i].argv[2] = "/export-image"
          /\ invocations[i].argv[3] = "/sourceimagefile:" \o call.src
          /\ invocations[i].argv[5] = "/destinationimagefile:" \o call.dst
          /\ invocations[i].argv[6] =
                (IF call.fn = "esd_to_wim" THEN "/compress:max"
                 ELSE "/compress:recovery")

C9_Witness ==
    /\ call.fn = "esd_to_wim"
    /\ Events = <<<<"probe", "zero">>, <<"primary", "nonzero">>, <<"fallback", "zero">>>>
    /\ invocations[3].argv[6] = "--compress=max"

(***************************************************************************)
(* Tabular converter: text layer                                           *)
(***************************************************************************)

\* File contents are sequences of one-character strings.
Whitespace == {" ", "\n", "\r", "\t"}

\* open(path, "r"): universal newlines, "\r\n" and "\r" are read as "\n".
RECURSIVE UniversalNewlines(_)
UniversalNewlines(s) ==
    IF s = <<>> THEN <<>>
    ELSE IF Head(s) = "\r"
         THEN <<"\n">> \o UniversalNewlines(
                  IF Len(s) >= 2 /\ s[2] = "\n" THEN SubSeq(s, 3, Len(s))
                  ELSE Tail(s))
         ELSE <<Head(s)>> \o UniversalNewlines(Tail(s))

\* End of the first line of a non-empty text: its "\n", or the end of text.
LineEnd(s) ==
    IF \E i \in 1..Len(s) : s[i] = "\n"
    THEN CHOOSE i \in 1..Len(s) :
             s[i] = "\n" /\ \A j \in 1..(i - 1) : s[j] # "\n"
    ELSE Len(s)

\* file.readlines(): the lines, each with its terminator when it has one.
RECURSIVE readlines(_)
readlines(s) ==
    IF s = <<>> THEN <<>>
    ELSE <<SubSeq(s, 1, LineEnd(s))>> \o
         readlines(SubSeq(s, LineEnd(s) + 1, Len(s)))

RECURSIVE lstrip(_)
lstrip(s) ==
    IF s # <<>> /\ Head(s) \in Whitespace THEN lstrip(Tail(s)) ELSE s

RECURSIVE rstrip(_)
rstrip(s) ==
    IF s # <<>> /\ s[Len(s)] \in Whitespace
    THEN rstrip(SubSeq(s, 1, Len(s) - 1)) ELSE s

\* str.strip(): whitespace removed at both ends.
strip(s) == rstrip(lstrip(s))

\* str.split(","): the pieces between commas; one empty piece for "".
RECURSIVE split(_)
split(s) ==
    IF \E i \in 1..Len(s) : s[i] = ","
    THEN LET i == CHOOSE i \in 1..Len(s) :
                      s[i] = "," /\ \A j \in 1..(i - 1) : s[j] # ","
         IN <<SubSeq(s, 1, i - 1)>> \o split(SubSeq(s, i + 1, Len(s)))
    ELSE <<s>>

\* ",".join(row)
RECURSIVE join(_)
join(row) ==
    IF row = <<>> THEN <<>>
    ELSE IF Len(row) = 1 THEN row[1]
    ELSE row[1] \o <<",">> \o join(Tail(row))

(***************************************************************************)
(* csv.writer and csv.reader, default dialect                              *)
(***************************************************************************)

RECURSIVE double_quotes(_)
double_quotes(f) ==
    IF f = <<>> THEN <<>>
    ELSE (IF Head(f) = "\"" THEN <<"\"", "\"">> ELSE <<Head(f)>>)
         \o double_quotes(Tail(f))

\* QUOTE_MINIMAL: a field holding the delimiter, the quote character or a
\* line terminator character is quoted, its quotes doubled.
write_field(f) ==
    IF \E i \in 1..Len(f) : f[i] \in {",", "\"", "\r", "\n"}
    THEN <<"\"">> \o double_quotes(f) \o <<"\"">>
    ELSE f

RECURSIVE write_fields(_)
write_fields(row) ==
    IF row = <<>> THEN <<>>
    ELSE IF Len(row) = 1 THEN write_field(row[1])
    ELSE write_field(row[1]) \o <<",">> \o write_fields(Tail(row))

\* writer.writerow(row): a row of one empty field is written as "".
writerow(row) ==
    (IF row = <<<<>>>> THEN <<"\"", "\"">> ELSE write_fields(row))
    \o <<"\r", "\n">>

\* writer.writerows(rows)
RECURSIVE writerows(_)
writerows(rows) ==
    IF rows = <<>> THEN <<>>
    ELSE writerow(Head(rows)) \o writerows(Tail(rows))

ReaderStart == [rows |-> <<>>, row |-> <<>>, field |-> <<>>,
                state |-> "START_RECORD"]

save_field(p) == [p EXCEPT !.row = Append(p.row, p.field), !.field = <<>>]

end_record(p) == [rows |-> Append(p.rows, p.row), row |-> <<>>,
                  field |-> <<>>, state |-> "START_RECORD"]

add_char(p, c, st) == [p EXCEPT !.field = Append(p.field, c), !.state = st]

\* One character of the reader's state machine (non-strict).
parse_process_char(p, c) ==
    CASE p.state = "START_RECORD" /\ c = "\n" -> end_record(p)
      [] p.state \in {"START_RECORD", "START_FIELD"} /\ c # "\n" ->
            (CASE c = "\"" -> [p EXCEPT !.state = "IN_QUOTED_FIELD"]
               [] c = ","  -> [save_field(p) EXCEPT !.state = "START_FIELD"]
               [] OTHER    -> add_char(p, c, "IN_FIELD"))
      [] p.state = "START_FIELD" /\ c = "\n" -> end_record(save_field(p))
      [] p.state = "IN_FIELD" ->
            (CASE c = "\n" -> end_record(save_field(p))
               [] c = ","  -> [save_field(p) EXCEPT !.state = "START_FIELD"]
               [] OTHER    -> add_char(p, c, "IN_FIELD"))
      [] p.state = "IN_QUOTED_FIELD" ->
            (IF c = "\"" THEN [p EXCEPT !.state = "QUOTE_IN_QUOTED_FIELD"]
             ELSE add_char(p, c, "IN_QUOTED_FIELD"))
      [] p.state = "QUOTE_IN_QUOTED_FIELD" ->
            (CASE c = "\"" -> add_char(p, c, "IN_QUOTED_FIELD")
               [] c = ","  -> [save_field(p) EXCEPT !.state = "START_FIELD"]
               [] c = "\n" -> end_record(save_field(p))
               [] OTHER    -> add_char(p, c, "IN_FIELD"))

RECURSIVE parse_chars(_, _, _)
parse_chars(p, s, i) ==
    IF i > Len(s) THEN p
    ELSE parse_chars(parse_process_char(p, s[i]), s, i + 1)

\* list(csv.reader(f)) over text read with universal newlines; a record
\* left open at the end of the text is closed there.
csv_reader(s) ==
    LET p == parse_chars(ReaderStart, s, 1) IN
        IF p.state = "START_RECORD" THEN p.rows
        ELSE end_record(save_field(p)).rows

\* "".join(",".join(row) + "\n" for row in data)
RECURSIVE write_lines(_)
write_lines(data) ==
    IF data = <<>> THEN <<>>
    ELSE join(Head(data)) \o <<"\n">> \o write_lines(Tail(data))

\* txt_to_csv with the per-line strip() left out.
txt_to_csv_no_strip(txt) ==
    LET lines == readlines(UniversalNewlines(txt))
        data == [i \in 1..Len(lines) |-> split(lines[i])]
    IN writerows(data)

\* txt_to_csv: the content written to csv_path for the content of txt_path.
txt_to_csv(txt) ==
    LET lines == readlines(UniversalNewlines(txt))
        data == [i \in 1..Len(lines) |-> split(strip(lines[i]))]
    IN writerows(data)

\* csv_to_txt writing the rows without the trailing newline.
csv_to_txt_no_newline(csv) ==
    LET data == csv_reader(UniversalNewlines(csv))
    IN join([i \in 1..Len(data) |-> join(data[i])])

\* csv_to_txt: the content written to txt_path for the content of csv_path.
csv_to_txt(csv) ==
    LET data == csv_reader(UniversalNewlines(csv))
    IN write_lines(data)

MaxLen == 4
TxtChars == {"a", ",", " ", "\"", "\n", "\r"}

RECURSIVE Texts(_)
Texts(n) ==
    IF n = 0 THEN {<<>>}
    ELSE LET shorter == Texts(n - 1) IN
         shorter \cup {Append(t, c) : t \in {u \in shorter : Len(u) = n - 1},
                                       c \in TxtChars}

TxtToCsv ==
    /\ pc = "idle"
    /\ csv_file' = txt_to_csv(txt_file)
    /\ pc' = "converted"
    /\ UNCHANGED <<call, invocations, log, probe_ret, outcome>>
    /\ UNCHANGED <<txt_file, txt_out, json_file>>

CsvToTxt ==
    /\ pc = "converted"
    /\ txt_out' = csv_to_txt(csv_file)
    /\ pc' = "roundtrip"
    /\ outcome' = "returned"
    /\ UNCHANGED <<call, invocations, log, probe_ret>>
    /\ UNCHANGED <<txt_file, csv_file, json_file>>

InitText ==
    /\ pc = "idle"
    /\ call = NoCall
    /\ invocations = <<>>
    /\ log = <<>>
    /\ probe_ret = "none"
    /\ outcome = "none"
    /\ txt_file \in Texts(MaxLen)
    /\ csv_file = <<>>
    /\ txt_out = <<>>
    /\ json_file = <<>>

NextText == TxtToCsv \/ CsvToTxt

SpecText == InitText /\ [][NextText]_vars

\* The lines of the input text and the rows held by the CSV file.
InputText == UniversalNewlines(txt_file)
Lines == readlines(InputText)
CsvRows == csv_reader(UniversalNewlines(csv_file))

\* N: one line per "\n", plus an unterminated last line.
NumLines ==
    Cardinality({i \in 1..Len(InputText) : InputText[i] = "\n"})
    + (IF InputText # <<>> /\ InputText[Len(InputText)] # "\n" THEN 1 ELSE 0)

\* Rows written: one "\r\n" terminator each.
CsvRecordsWritten ==
    Cardinality({i \in 1..(Len(csv_file) - 1) :
                    csv_file[i] = "\r" /\ csv_file[i + 1] = "\n"})

\* C4 as stated: N lines give N rows, row i the comma-split of line i with
\* only its trailing newline/whitespace removed.
C4_Original ==
    pc # "idle" =>
        /\ Len(CsvRows) = NumLines
        /\ CsvRecordsWritten = NumLines
        /\ \A i \in 1..Len(CsvRows) : CsvRows[i] = split(rstrip(Lines[i]))

\* C4 (amended): N lines give exactly N CSV rows, row i the comma-split of
\* line i with its leading and trailing whitespace removed; a blank line
\* gives a row of one empty field.
C4_RowsAreSplitStrippedLines ==
    pc # "idle" =>
        /\ Len(CsvRows) = NumLines
        /\ CsvRecordsWritten = NumLines
        /\ \A i \in 1..Len(CsvRows) :
              /\ CsvRows[i] = split(rstrip(lstrip(Lines[i])))
              /\ (Lines[i] = <<"\n">> => CsvRows[i] = <<<<>>>>)

C4_Witness ==
    /\ pc = "converted"
    /\ txt_file = <<" ", "a", "\n", "\n">>
    /\ CsvRows = << <<<<"a">>>>, <<<<>>>> >>

\* Of a text read with universal newlines: every line ends in "\n" and no
\* line begins or ends with whitespace.
CleanText(t) ==
    /\ t # <<>> => t[Len(t)] = "\n"
    /\ \A i \in 1..Len(t) :
          t[i] \in {" ", "\t"} =>
              /\ i > 1 /\ t[i - 1] # "\n"
              /\ i < Len(t) /\ t[i + 1] # "\n"

\* The output text as read back.
OutputText == UniversalNewlines(txt_out)

\* C5 as stated: txt_to_csv then csv_to_txt gives back the input text, also
\* with leading or trailing whitespace in a line, blank lines and an
\* unterminated last line (fields are the comma-split pieces of a line, so
\* none holds a comma). Texts are compared as read, line ends as "\n".
C5_Original == pc = "roundtrip" => OutputText = InputText

\* C5 (amended): txt_to_csv then csv_to_txt gives back the input text when
\* every line ends in a newline and no line begins or ends with whitespace
\* (blank lines included).
C5_RoundTripOnCleanText ==
    (pc = "roundtrip" /\ CleanText(InputText)) => OutputText = InputText

C5_Witness ==
    /\ pc = "roundtrip"
    /\ txt_file = <<"\"", ",", "\n", "\n">>
    /\ CleanText(InputText)
    /\ txt_out = txt_file

(***************************************************************************)
(* Tabular converter: CSV and JSON                                         *)
(***************************************************************************)

\* A Python dict is a sequence of entries in insertion order, keys unique.
\* A key is a string or None; a value is a str, None or a list of str.
StrKey(name) == [none |-> FALSE, s |-> name]
NoneKey == [none |-> TRUE, s |-> <<>>]
StrVal(f) == [t |-> "str", s |-> f, l |-> <<>>]
NoneVal == [t |-> "None", s |-> <<>>, l |-> <<>>]
ListVal(fs) == [t |-> "list", s |-> <<>>, l |-> fs]

\* d[key] = val
dict_set(d, key, val) ==
    IF \E j \in 1..Len(d) : d[j].k = key
    THEN [j \in 1..Len(d) |-> IF d[j].k = key THEN [k |-> key, v |-> val] ELSE d[j]]
    ELSE Append(d, [k |-> key, v |-> val])

\* dict(zip(fieldnames, row)), filled from position i on.
RECURSIVE dict_zip(_, _, _, _)
dict_zip(d, fieldnames, row, i) ==
    IF i > Len(fieldnames) \/ i > Len(row) THEN d
    ELSE dict_zip(dict_set(d, StrKey(fieldnames[i]), StrVal(row[i])),
                  fieldnames, row, i + 1)

\* for key in fieldnames[lr:]: d[key] = restval (None)
RECURSIVE fill_restval(_, _, _)
fill_restval(d, fieldnames, i) ==
    IF i > Len(fieldnames) THEN d
    ELSE fill_restval(dict_set(d, StrKey(fieldnames[i]), NoneVal),
                      fieldnames, i + 1)

\* DictReader row without the restkey / restval handling.
row_dict_zip_only(fieldnames, row) == dict_zip(<<>>, fieldnames, row, 1)

\* DictReader.__next__: the dict made of one non-blank row.
row_dict(fieldnames, row) ==
    LET d == dict_zip(<<>>, fieldnames, row, 1) IN
        IF Len(fieldnames) < Len(row)
        THEN dict_set(d, NoneKey,
                      ListVal(SubSeq(row, Len(fieldnames) + 1, Len(row))))
        ELSE IF Len(fieldnames) > Len(row)
        THEN fill_restval(d, fieldnames, Len(row) + 1)
        ELSE d

NonBlank(row) == row # <<>>

\* [row for row in csv.DictReader(f)]: the first row read is the header,
\* blank rows after it are skipped.
DictReader(s) ==
    LET rows == csv_reader(s) IN
        IF rows = <<>> THEN <<>>
        ELSE LET body == SelectSeq(Tail(rows), NonBlank) IN
             [j \in 1..Len(body) |-> row_dict(rows[1], body[j])]

\* json.dump: a JSON object is its members in order; a None key is written
\* "null", None as null, a list as an array.
json_member(e) ==
    [k |-> IF e.k.none THEN <<"n", "u", "l", "l">> ELSE e.k.s,
     v |-> [t |-> CASE e.v.t = "str" -> "string"
                    [] e.v.t = "None" -> "null"
                    [] e.v.t = "list" -> "array",
            s |-> e.v.s, l |-> e.v.l]]

json_dump(data) ==
    [j \in 1..Len(data) |-> [m \in 1..Len(data[j]) |-> json_member(data[j][m])]]

\* json.load of an array of objects (last duplicate member wins).
RECURSIVE load_object(_, _, _)
load_object(d, obj, m) ==
    IF m > Len(obj) THEN d
    ELSE load_object(
             dict_set(d, StrKey(obj[m].k),
                      [t |-> CASE obj[m].v.t = "string" -> "str"
                               [] obj[m].v.t = "null" -> "None"
                               [] obj[m].v.t = "array" -> "list",
                       s |-> obj[m].v.s, l |-> obj[m].v.l]),
             obj, m + 1)

json_load(doc) == [j \in 1..Len(doc) |-> load_object(<<>>, doc[j], 1)]

\* csv_to_json: the JSON document written for the content of csv_path.
csv_to_json(csv) == json_dump(DictReader(UniversalNewlines(csv)))

\* data[0].keys()
dict_keys(d) == [m \in 1..Len(d) |-> d[m].k.s]

\* DictWriter with extrasaction="ignore".
wrong_fields_ignored(rowdict, fieldnames) == {}

\* DictWriter._dict_to_list: rowdict.keys() - fieldnames
wrong_fields(rowdict, fieldnames) ==
    {rowdict[m].k.s : m \in 1..Len(rowdict)}
        \ {fieldnames[i] : i \in 1..Len(fieldnames)}

\* What csv.writer writes for a value (None as "", a str as itself).
field_text(v) == IF v.t = "str" THEN v.s ELSE <<>>

\* rowdict.get(key, restval) for key in fieldnames, restval "".
dict_to_list(rowdict, fieldnames) ==
    [i \in 1..Len(fieldnames) |->
        IF \E m \in 1..Len(rowdict) : rowdict[m].k.s = fieldnames[i]
        THEN field_text(rowdict[CHOOSE m \in 1..Len(rowdict) :
                                    rowdict[m].k.s = fieldnames[i]].v)
        ELSE <<>>]

\* for row in data: writer.writerow(row), from element i on.
RECURSIVE write_dict_rows(_, _, _, _)
write_dict_rows(data, i, fieldnames, file) ==
    IF i > Len(data) THEN [file |-> file, exc |-> "none"]
    ELSE IF wrong_fields(data[i], fieldnames) # {}
         THEN [file |-> file, exc |-> "ValueError"]
         ELSE write_dict_rows(data, i + 1, fieldnames,
                              file \o writerow(dict_to_list(data[i], fieldnames)))

\* json_to_csv returning normally, with nothing written, on an empty array.
json_to_csv_guard_empty(doc, old) ==
    LET data == json_load(doc) IN
        IF data = <<>> THEN [file |-> <<>>, exc |-> "none"]
        ELSE write_dict_rows(data, 1, dict_keys(data[1]),
                             writerow(dict_keys(data[1])))

\* json_to_csv that opens csv_path only after data[0] was read.
json_to_csv_open_late(doc, old) ==
    LET data == json_load(doc) IN
        IF data = <<>> THEN [file |-> old, exc |-> "IndexError"]
        ELSE write_dict_rows(data, 1, dict_keys(data[1]),
                             writerow(dict_keys(data[1])))

\* json_to_csv: the content of csv_path afterwards and the exception, if
\* any, that leaves the function. open(csv_path, "w") empties the file
\* (old content) before data[0] is evaluated; the with block closes it.
json_to_csv(doc, old) ==
    LET data == json_load(doc) IN
        IF data = <<>> THEN [file |-> <<>>, exc |-> "IndexError"]
        ELSE write_dict_rows(data, 1, dict_keys(data[1]),
                             writerow(dict_keys(data[1])))

FieldValues == {<<>>, <<"x">>}
Headers == {<<<<"a">>>>, <<<<"a">>, <<"b">>>>, <<<<"b">>, <<"a">>>>,
            <<<<"a">>, <<"a">>>>}
MaxFields == 3
MaxRows == 2
MaxElems == 3

\* Data rows as written to a CSV file: blank (no field) up to MaxFields fields.
DataRowSet == UNION {[1..k -> FieldValues] : k \in 0..MaxFields}

\* CSV files holding a header row and up to MaxRows data rows.
CsvInputs ==
    {writerows(<<h>> \o rows) :
        h \in Headers, rows \in UNION {[1..n -> DataRowSet] : n \in 0..MaxRows}}

JsonKeyLists == {<<>>, <<<<"a">>>>, <<<<"b">>>>, <<<<"a">>, <<"b">>>>,
                 <<<<"b">>, <<"a">>>>}

\* JSON objects with string values.
JsonObjects ==
    UNION {{[m \in 1..Len(ks) |->
                [k |-> ks[m], v |-> [t |-> "string", s |-> vs[m], l |-> <<>>]]] :
              vs \in [1..Len(ks) -> FieldValues]} : ks \in JsonKeyLists}

\* JSON arrays of up to MaxElems objects.
JsonInputs == UNION {[1..n -> JsonObjects] : n \in 0..MaxElems}

\* What csv_path may hold before json_to_csv runs.
OldCsv == <<"o", "l", "d", "\r", "\n">>

CsvToJson ==
    /\ pc = "idle"
    /\ json_file' = csv_to_json(csv_file)
    /\ outcome' = "returned"
    /\ pc' = "done"
    /\ UNCHANGED <<call, invocations, log, probe_ret>>
    /\ UNCHANGED <<txt_file, csv_file, txt_out>>

InitCsvJson ==
    /\ pc = "idle"
    /\ call = NoCall
    /\ invocations = <<>>
    /\ log = <<>>
    /\ probe_ret = "none"
    /\ outcome = "none"
    /\ txt_file = <<>>
    /\ csv_file \in CsvInputs
    /\ txt_out = <<>>
    /\ json_file = <<>>

NextCsvJson == CsvToJson

SpecCsvJson == InitCsvJson /\ [][NextCsvJson]_vars

JsonToCsv ==
    /\ pc = "idle"
    /\ LET r == json_to_csv(json_file, csv_file) IN
         /\ csv_file' = r.file
         /\ outcome' = IF r.exc = "none" THEN "returned" ELSE r.exc
    /\ pc' = "done"
    /\ UNCHANGED <<call, invocations, log, probe_ret>>
    /\ UNCHANGED <<txt_file, txt_out, json_file>>

InitJsonCsv ==
    /\ pc = "idle"
    /\ call = NoCall
    /\ invocations = <<>>
    /\ log = <<>>
    /\ probe_ret = "none"
    /\ outcome = "none"
    /\ txt_file = <<>>
    /\ csv_file \in {<<>>, OldCsv}
    /\ txt_out = <<>>
    /\ json_file \in JsonInputs

NextJsonCsv == JsonToCsv

SpecJsonCsv == InitJsonCsv /\ [][NextJsonCsv]_vars

\* The header row and the data rows of the input CSV file.
ParsedCsv == csv_reader(UniversalNewlines(csv_file))
Header == ParsedCsv[1]
DataRows == Tail(ParsedCsv)
HeaderSet == {Header[i] : i \in 1..Len(Header)}
HeaderDistinct == Cardinality(HeaderSet) = Len(Header)
NullName == <<"n", "u", "l", "l">>

KeySet(obj) == {obj[m].k : m \in 1..Len(obj)}
Member(obj, name) == obj[CHOOSE m \in 1..Len(obj) : obj[m].k = name].v
JsonString(f) == [t |-> "string", s |-> f, l |-> <<>>]

\* C6 as stated: N data rows give N elements in order, each with exactly
\* the header as key set and only string values, also for blank, short and
\* long data rows.
C6_Original ==
    pc = "done" =>
        /\ Len(json_file) = Len(DataRows)
        /\ \A j \in 1..Len(json_file) :
              /\ KeySet(json_file[j]) = HeaderSet
              /\ \A m \in 1..Len(json_file[j]) : json_file[j][m].v.t = "string"
              /\ (HeaderDistinct /\ j <= Len(DataRows)) =>
                    \A i \in 1..Len(Header) :
                        i <= Len(DataRows[j]) =>
                            Member(json_file[j], Header[i]) = JsonString(DataRows[j][i])

\* C6 (amended): with distinct header names the array holds one element per
\* non-blank data row, in order (blank rows are skipped); every element has
\* every header name as a key; a row as long as the header gives exactly
\* the header keys with its fields as string values; a shorter row gives
\* null for the missing columns; a longer row gives one more key, "null",
\* holding the list of its surplus fields.
C6_ElementsOfNonBlankRows ==
    (pc = "done" /\ HeaderDistinct) =>
        LET body == SelectSeq(DataRows, NonBlank) IN
        /\ Len(json_file) = Len(body)
        /\ \A j \in 1..Len(body) :
              LET r == body[j]
                  o == json_file[j]
                  n == Len(Header)
              IN /\ HeaderSet \subseteq KeySet(o)
                 /\ \A i \in 1..n :
                       Member(o, Header[i]).t =
                           (IF i <= Len(r) THEN "string" ELSE "null")
                 /\ \A i \in 1..n :
                       i <= Len(r) => Member(o, Header[i]).s = r[i]
                 /\ Len(r) <= n => KeySet(o) = HeaderSet
                 /\ Len(r) > n =>
                       /\ KeySet(o) = HeaderSet \cup {NullName}
                       /\ Member(o, NullName).t = "array"
                       /\ Member(o, NullName).l = SubSeq(r, n + 1, Len(r))

C6_Witness ==
    /\ pc = "done"
    /\ Header = <<<<"a">>, <<"b">>>>
    /\ DataRows = << <<>>, <<<<"x">>, <<>>, <<"x">>>> >>
    /\ Len(json_file) = 1
    /\ Member(json_file[1], NullName).l = <<<<"x">>>>

\* The key set of element k of the input array.
ElemKeys(k) == KeySet(json_file[k])

\* The rows held by the CSV file after json_to_csv.
OutRows == csv_reader(UniversalNewlines(csv_file))

\* C7 as stated: json_to_csv fails whenever a later element's key set
\* differs from the first element's, whether it has a key the first lacks
\* or lacks a key the first has.
C7_Original ==
    (pc = "done" /\ \E k \in 2..Len(json_file) : ElemKeys(k) # ElemKeys(1))
        => outcome # "returned"

\* C7 (amended): on a non-empty array json_to_csv fails (ValueError) exactly
\* when some later element has a key the first element lacks; a later
\* element that only lacks keys of the first does not fail, its missing
\* fields are written empty.
C7_FailsOnExtraKeysOnly ==
    (pc = "done" /\ json_file # <<>>) =>
        /\ outcome \in {"returned", "ValueError"}
        /\ outcome = "ValueError" <=>
              \E k \in 2..Len(json_file) : ~(ElemKeys(k) \subseteq ElemKeys(1))
        /\ outcome = "returned" =>
              /\ Len(OutRows) = Len(json_file) + 1
              /\ \A k \in 1..Len(json_file) :
                    /\ Len(OutRows[k + 1]) = Len(json_file[1])
                    /\ \A i \in 1..Len(json_file[1]) :
                          OutRows[k + 1][i] =
                              (IF json_file[1][i].k \in ElemKeys(k)
                               THEN Member(json_file[k], json_file[1][i].k).s
                               ELSE <<>>)

C7_Witness ==
    /\ pc = "done"
    /\ Len(json_file) = 2
    /\ ElemKeys(1) = {<<"a">>, <<"b">>}
    /\ ElemKeys(2) = {<<"b">>}
    /\ outcome = "returned"
    /\ OutRows[3] = <<<<>>, <<"x">>>>

\* C8: on an empty array json_to_csv fails with an error (no first
\* element) that is not caught and reaches the caller.
C8_EmptyArrayRaises ==
    (pc = "done" /\ json_file = <<>>) => outcome = "IndexError"

C8_Witness ==
    /\ pc = "done"
    /\ json_file = <<>>
    /\ outcome = "IndexError"

\* Index of the element json_to_csv fails at (Len + 1 when none fails).
FirstFailing ==
    IF \E k \in 1..Len(json_file) : ~(ElemKeys(k) \subseteq ElemKeys(1))
    THEN CHOOSE k \in 1..Len(json_file) :
             /\ ~(ElemKeys(k) \subseteq ElemKeys(1))
             /\ \A j \in 1..(k - 1) : ElemKeys(j) \subseteq ElemKeys(1)
    ELSE Len(json_file) + 1

\* C10: when json_to_csv fails, the output file holds exactly what was
\* written before the failure: nothing for an empty array, otherwise the
\* header line and the rows of the elements before the failing one; what
\* the file held before is gone.
C10_PartialOutputKept ==
    (pc = "done" /\ outcome # "returned") =>
        IF json_file = <<>> THEN csv_file = <<>>
        ELSE /\ Len(OutRows) = FirstFailing
             /\ OutRows[1] = [i \in 1..Len(json_file[1]) |-> json_file[1][i].k]
             /\ \A k \in 1..(FirstFailing - 1) :
                   OutRows[k + 1] =
                       [i \in 1..Len(json_file[1]) |->
                           IF json_file[1][i].k \in ElemKeys(k)
                           THEN Member(json_file[k], json_file[1][i].k).s
                           ELSE <<>>]
             /\ csv_file = writerows(OutRows)

C10_Witness ==
    /\ pc = "done"
    /\ outcome = "ValueError"
    /\ FirstFailing = 3
    /\ OutRows = << <<<<"a">>>>, <<<<"x">>>>, <<<<>>>> >>

====
